---- MODULE Spec2Model ----
(***************************************************************************)
(* The alias registry of the URL shortener (URLShortenerService in         *)
(* utils/urlShortener.ts): the in-memory collection `urls`, the link       *)
(* collection persisted in localStorage, and the operations                *)
(* createShortenedURL (create), getURLByShortCode (resolve), recordClick   *)
(* (recordVisit), getAllURLs (list), getActiveURLsCount (countActive) and  *)
(* deleteURL (deleteLink).                                                 *)
(*                                                                         *)
(* Representation.  Times are integer milliseconds (Date.getTime()).       *)
(* A short code is a sequence of one-character strings.  validityMinutes   *)
(* is a JavaScript number; it is held as a count of HALF minutes so that   *)
(* the fractional arguments 0.5 and 10080.5 are inputs too: the            *)
(* whole number n of minutes is Minutes(n).  An optional value is a        *)
(* sequence of length 0 (null / undefined) or 1.                           *)
(*                                                                         *)
(* The Logger of the same file (its log, its listeners, its persisted log) *)
(* is specified by LogSpec; the log entries the registry and the pages     *)
(* write change only the Logger's state and are left out of the other      *)
(* specifications.  AppSpec adds Home.handleFormSubmit and the effect of   *)
(* the Redirect page, TabSpec a second browser tab with its own            *)
(* URLShortenerService over the same localStorage.                         *)
(***************************************************************************)
EXTENDS Integers, Sequences, FiniteSets, TLC

VARIABLES
  urls,      \* URLShortenerService.urls: the in-memory collection
  storage,   \* localStorage[STORAGE_KEY]: <<>> when absent, else <<JSON array>>
  now,       \* the wall clock, ms
  nextId,    \* number of crypto.randomUUID() values handed out so far
  last,      \* the last call: operation, arguments, outcome
  logs,      \* Logger.logs
  listeners, \* Logger.listeners, in subscription order
  handles,   \* the listeners whose unsubscribe handle the pages hold
  logStorage, \* localStorage['url_shortener_logs']: <<>> when absent, else <<JSON array>>
  delivered, \* the listener invocations of the last logging call, in order
  redirect,  \* the state of the Redirect page: status, originalUrl
  home,      \* the state of the Home page: createdUrls, isSubmitting
  tabUrls    \* URLShortenerService.urls of the browser tab in the background

\* the logger's state, and the state of the pages and of the other tab
loggerVars == <<logs, listeners, handles, logStorage, delivered>>
pageVars == <<redirect, home, tabUrls>>

vars == <<urls, storage, now, nextId, last, loggerVars, pageVars>>

----------------------------------------------------------------------------
(* Bounds of the model *)

MaxUrls == 2        \* create is not called while this many records are held
MaxIds == 2         \* randomUUID is called at most this many times
MaxClicks == 1      \* recordClick is not called on a record with this many clicks
MaxNow == 61000     \* the clock is not advanced past this instant

----------------------------------------------------------------------------
(* Strings *)

RECURSIVE Repeat(_, _)
Repeat(c, n) == IF n = 0 THEN <<>> ELSE <<c>> \o Repeat(c, n - 1)

Lower == {"a","b","c","d","e","f","g","h","i","j","k","l","m",
          "n","o","p","q","r","s","t","u","v","w","x","y","z"}
Upper == {"A","B","C","D","E","F","G","H","I","J","K","L","M",
          "N","O","P","Q","R","S","T","U","V","W","X","Y","Z"}
Digit == {"0","1","2","3","4","5","6","7","8","9"}

\* const chars = 'abc...xyzABC...XYZ0123456789' of generateShortCode
chars == <<"a","b","c","d","e","f","g","h","i","j","k","l","m",
           "n","o","p","q","r","s","t","u","v","w","x","y","z",
           "A","B","C","D","E","F","G","H","I","J","K","L","M",
           "N","O","P","Q","R","S","T","U","V","W","X","Y","Z",
           "0","1","2","3","4","5","6","7","8","9">>

\* String.prototype.charAt with a 0-based index
charAt(s, i) == s[i + 1]

STORAGE_KEY == "url_shortener_data"

\* window.location.origin
origin == <<"h","t","t","p",":","/","/","h">>

BASE_URL == origin \o <<"/","s","/">>

----------------------------------------------------------------------------
(* Numbers and dates *)

\* the whole number n of minutes, as a validityMinutes value
Minutes(n) == 2 * n

\* ValidityMs without the factor 1000 (seconds taken for milliseconds)
ValidityMs_Seconds(validityMinutes) == (validityMinutes * 60) \div 2

\* validityMinutes * 60 * 1000, in ms
ValidityMs(validityMinutes) == (validityMinutes * 60 * 1000) \div 2

msPerDay == 86400000

\* the civil date (proleptic Gregorian calendar, UTC) of the day that is
\* `days` days after 1970-01-01
civilFromDays(days) ==
  LET z == days + 719468
      era == z \div 146097
      doe == z - era * 146097
      yoe == (doe - doe \div 1460 + doe \div 36524 - doe \div 146096) \div 365
      doy == doe - (365 * yoe + yoe \div 4 - yoe \div 100)
      mp == (5 * doy + 2) \div 153
      month == IF mp < 10 THEN mp + 3 ELSE mp - 9
  IN [ year |-> yoe + era * 400 + (IF month <= 2 THEN 1 ELSE 0),
       month |-> month,
       day |-> doy - (153 * mp + 2) \div 5 + 1 ]

\* the number of days from 1970-01-01 to the civil date
daysFromCivil(year, month, day) ==
  LET y == IF month <= 2 THEN year - 1 ELSE year
      era == y \div 400
      yoe == y - era * 400
      doy == (153 * (IF month > 2 THEN month - 3 ELSE month + 9) + 2) \div 5 + day - 1
      doe == yoe * 365 + yoe \div 4 - yoe \div 100 + doy
  IN era * 146097 + doe - 719468

\* toISOString cut after the date: toISOString().slice(0, 10)
toISOString_DateOnly(t) ==
  LET date == civilFromDays(t \div msPerDay)
  IN [ year |-> date.year, month |-> date.month, day |-> date.day,
       hours |-> 0, minutes |-> 0, seconds |-> 0, milliseconds |-> 0 ]

\* Date.prototype.toJSON: the ISO-8601 string YYYY-MM-DDTHH:mm:ss.sssZ of the
\* instant t, as the numbers its fields spell
toISOString(t) ==
  LET date == civilFromDays(t \div msPerDay)
      inDay == t % msPerDay
  IN [ year |-> date.year, month |-> date.month, day |-> date.day,
       hours |-> inDay \div 3600000,
       minutes |-> (inDay \div 60000) % 60,
       seconds |-> (inDay \div 1000) % 60,
       milliseconds |-> inDay % 1000 ]

\* new Date(isoString): the instant the string denotes
parseDate(s) ==
  daysFromCivil(s.year, s.month, s.day) * msPerDay
    + s.hours * 3600000 + s.minutes * 60000 + s.seconds * 1000 + s.milliseconds

----------------------------------------------------------------------------
(* Inputs *)

Undefined == [given |-> FALSE, value |-> <<>>]
Str(s) == [given |-> TRUE, value |-> s]

\* strings the platform's URL parser accepts
ParsableUrls == {"https://x.com"}

\* the outcomes of the six Math.floor(Math.random() * chars.length) of one
\* generateShortCode call that are drawn: they give "aaaaaa" and "zAZ09a"
DrawA == <<0, 0, 0, 0, 0, 0>>
DrawB == <<25, 26, 51, 52, 61, 0>>

\* the run of Math.random over one createShortenedURL call: the first
\* `switch` calls of generateShortCode draw `first`, the later ones `rest`
Random(switch, first, rest) == [switch |-> switch, first |-> first, rest |-> rest]

CreateArg(originalUrl, validityMinutes, customShortcode, random) ==
  [ originalUrl |-> originalUrl, validityMinutes |-> validityMinutes,
    customShortcode |-> customShortcode, random |-> random ]

\* the calls of createShortenedURL that are made: validityMinutes is
\* 0, 0.5, 1, 10080 or 10080.5 minutes; customShortcode is absent, "",
\* "a-b", or twenty or twenty-one times "Z"
CreateInputs ==
  { CreateArg(originalUrl, validityMinutes, customShortcode, Random(1, DrawA, DrawB)) :
      <<originalUrl, validityMinutes, customShortcode>> \in
        { <<"not-a-url", Minutes(1), Undefined>>,
          <<"https://x.com", 0, Undefined>>,
          <<"https://x.com", Minutes(10080) + 1, Str(Repeat("Z", 20))>>,
          <<"https://x.com", 1, Str(Repeat("Z", 20))>>,
          <<"https://x.com", Minutes(10080), Str(Repeat("Z", 20))>>,
          <<"https://x.com", Minutes(1), Str(<<>>)>>,
          <<"https://x.com", Minutes(1), Str(<<"a","-","b">>)>>,
          <<"https://x.com", Minutes(1), Str(Repeat("Z", 21))>>,
          <<"https://x.com", Minutes(1), Str(Repeat("Z", 20))>>,
          <<"https://x.com", Minutes(1), Undefined>> } }

\* "aaaaaa", twenty times "Z", and a short code no record gets
ShortCodeInputs == { <<"a","a","a","a","a","a">>, Repeat("Z", 20), <<"q">> }

SourceInputs == {"direct", "https://ref.example/"}

\* the labels getLocationFromIP returns that are drawn
LocationDraws == {"New York, NY"}

TickInputs == {59000, 60000, 61000}

\* localStorage has room and can be read: setItem and getItem do not throw
WriteOutcomes == {TRUE}
ReadOutcomes == {TRUE}

----------------------------------------------------------------------------
(* Error messages thrown by createShortenedURL *)

InvalidUrl == "Invalid URL format"
InvalidValidity == "Validity must be between 1 and 10080 minutes"
InvalidAlias == "Custom shortcode must be alphanumeric and 1-20 characters"
AliasTaken == "Custom shortcode already exists"
AliasGenerationExhausted == "Unable to generate unique short code after 100 attempts"

NoError == ""

----------------------------------------------------------------------------
(* Persistence: loadFromStorage / saveToStorage *)

\* JSON.stringify of one ClickData: the Date becomes its ISO string
stringifyClick(click) == [click EXCEPT !.timestamp = toISOString(click.timestamp)]

\* JSON.stringify of one ShortenedURL
stringifyUrl(url) ==
  [url EXCEPT !.createdAt = toISOString(url.createdAt),
              !.expiresAt = toISOString(url.expiresAt),
              !.clicks = [k \in 1..Len(url.clicks) |-> stringifyClick(url.clicks[k])]]

\* JSON.stringify(this.urls)
stringify(u) == [i \in 1..Len(u) |-> stringifyUrl(u[i])]

\* the mapping loadFromStorage applies to one parsed click
reviveClick(click) == [click EXCEPT !.timestamp = parseDate(click.timestamp)]

\* the mapping loadFromStorage applies to one parsed url
reviveUrl(url) ==
  [url EXCEPT !.createdAt = parseDate(url.createdAt),
              !.expiresAt = parseDate(url.expiresAt),
              !.clicks = [k \in 1..Len(url.clicks) |-> reviveClick(url.clicks[k])]]

\* loadFromStorage: the collection a new instance starts with; when getItem
\* or the parse throws, this.urls keeps its initial value []
loadFromStorage(stored, readOk) ==
  IF readOk /\ stored # <<>>
  THEN [i \in 1..Len(stored[1]) |-> reviveUrl(stored[1][i])]
  ELSE <<>>

\* saveToStorage that writes the newest record only
saveToStorage_LastOnly(u, stored, writeOk) ==
  IF writeOk THEN <<stringify(SubSeq(u, Len(u), Len(u)))>> ELSE stored

\* saveToStorage: the stored value after the call; a setItem that throws
\* (writeOk = FALSE) is caught and leaves the stored value as it was
saveToStorage(u, stored, writeOk) ==
  IF writeOk THEN <<stringify(u)>> ELSE stored

----------------------------------------------------------------------------
(* Helpers of the registry *)

\* generateShortCode with the loop stopping one character early
generateShortCode_FiveChars(draws) == [i \in 1..5 |-> charAt(chars, draws[i])]

\* generateShortCode, with the six random indices as argument
generateShortCode(draws) == [i \in 1..6 |-> charAt(chars, draws[i])]

\* isShortCodeUnique that finds every short code unique
isShortCodeUnique_AlwaysUnique(u, shortCode) == TRUE

\* isShortCodeUnique that passes over the records flagged as expired
isShortCodeUnique_SkipExpired(u, shortCode) ==
  ~ \E i \in 1..Len(u) : u[i].shortCode = shortCode /\ ~ u[i].isExpired

isShortCodeUnique(u, shortCode) ==
  ~ \E i \in 1..Len(u) : u[i].shortCode = shortCode

isValidUrl(url) == url \in ParsableUrls

\* isValidShortCode with the quantifier {1,21}
isValidShortCode_UpTo21(shortCode) ==
  /\ Len(shortCode) >= 1
  /\ Len(shortCode) <= 21
  /\ \A i \in 1..Len(shortCode) : shortCode[i] \in Lower \cup Upper \cup Digit

\* /^[a-zA-Z0-9]{1,20}$/.test(shortCode)
isValidShortCode(shortCode) ==
  /\ Len(shortCode) >= 1
  /\ Len(shortCode) <= 20
  /\ \A i \in 1..Len(shortCode) : shortCode[i] \in Lower \cup Upper \cup Digit

\* truthiness of the optional string argument: `if (customShortcode)`
Truthy(opt) == opt.given /\ opt.value # <<>>

\* index of the first record with the short code, 0 when there is none
\* (this.urls.find(u => u.shortCode === shortCode))
findByShortCode(u, shortCode) ==
  IF \E i \in 1..Len(u) : u[i].shortCode = shortCode
  THEN CHOOSE i \in 1..Len(u) :
         /\ u[i].shortCode = shortCode
         /\ \A j \in 1..(i - 1) : u[j].shortCode # shortCode
  ELSE 0

\* this.urls.findIndex(url => url.id === id), 1-based, 0 for -1
findIndexById(u, id) ==
  IF \E i \in 1..Len(u) : u[i].id = id
  THEN CHOOSE i \in 1..Len(u) :
         /\ u[i].id = id
         /\ \A j \in 1..(i - 1) : u[j].id # id
  ELSE 0

\* splice without its deleteCount: this.urls.splice(index) removes the
\* record and every record after it
splice_FromIndex(u, index) == SubSeq(u, 1, index - 1)

\* this.urls.splice(index, 1)
splice(u, index) == [i \in 1..(Len(u) - 1) |-> IF i < index THEN u[i] ELSE u[i + 1]]

\* the comparator of getAllURLs (line 199):
\* (a, b) => b.createdAt.getTime() - a.createdAt.getTime()
compare(a, b) == b.createdAt - a.createdAt

\* insertSorted with the comparator's arguments exchanged: oldest first
RECURSIVE insertSorted_Ascending(_, _)
insertSorted_Ascending(x, s) ==
  IF s = <<>> THEN <<x>>
  ELSE IF compare(Head(s), x) < 0
       THEN <<x>> \o s
       ELSE <<Head(s)>> \o insertSorted_Ascending(x, Tail(s))

\* insertion of x into a sequence sorted by the comparator: x goes before
\* the first element it must precede (compare(x, e) < 0), after its equals
RECURSIVE insertSorted(_, _)
insertSorted(x, s) ==
  IF s = <<>> THEN <<x>>
  ELSE IF compare(x, Head(s)) < 0
       THEN <<x>> \o s
       ELSE <<Head(s)>> \o insertSorted(x, Tail(s))

\* [...u].sort(comparator); Array.prototype.sort is stable
RECURSIVE sortByCreatedAtDesc(_)
sortByCreatedAtDesc(u) ==
  IF u = <<>> THEN <<>>
  ELSE insertSorted(u[Len(u)], sortByCreatedAtDesc(SubSeq(u, 1, Len(u) - 1)))

\* the record createShortenedURL builds
newUrl(id, originalUrl, shortCode, validityMinutes, t) ==
  [ id |-> id,
    originalUrl |-> originalUrl,
    shortCode |-> shortCode,
    shortUrl |-> BASE_URL \o shortCode,
    validityMinutes |-> validityMinutes,
    createdAt |-> t,
    expiresAt |-> t + ValidityMs(validityMinutes),
    clicks |-> <<>>,
    isExpired |-> FALSE ]

\* newClick that drops the source argument and records "direct"
newClick_DirectSource(id, t, source, location) ==
  [ id |-> id,
    timestamp |-> t,
    source |-> "direct",
    location |-> location,
    userAgent |-> "navigator.userAgent",
    ipAddress |-> "client-side" ]

\* the ClickData recordClick builds
newClick(id, t, source, location) ==
  [ id |-> id,
    timestamp |-> t,
    source |-> source,
    location |-> location,
    userAgent |-> "navigator.userAgent",
    ipAddress |-> "client-side" ]

\* the outcome of a finished call
Outcome(op, arg, error, ret, writes, tested) ==
  [ op |-> op, arg |-> arg, error |-> error, ret |-> ret,
    writes |-> writes, failed |-> 0, stale |-> FALSE, attempts |-> tested ]

\* the outcome of a call that ran saveToStorage once: `failed` counts the
\* setItem calls that threw (and were caught at line 39); `stale` tells that
\* when the call began localStorage did not hold the collection the
\* registry held, an earlier setItem having thrown
Saving(outcome, writeOk) ==
  [outcome EXCEPT !.failed = IF writeOk THEN 0 ELSE 1,
                  !.stale = loadFromStorage(storage, TRUE) # urls]


----------------------------------------------------------------------------
(* The state after construction on a browser with nothing stored *)

Init ==
  /\ urls = <<>>
  /\ storage = <<>>
  /\ now = 0
  /\ nextId = 0
  /\ last = Outcome("construct", TRUE, NoError, <<>>, 0, 0)
  /\ logs = <<>>
  /\ listeners = <<>>
  /\ handles = {}
  /\ logStorage = <<>>
  /\ delivered = <<>>
  /\ redirect = [status |-> "loading", originalUrl |-> ""]
  /\ home = [createdUrls |-> <<>>, isSubmitting |-> FALSE]
  /\ tabUrls = <<>>

----------------------------------------------------------------------------
(* createShortenedURL *)

\* the draws of the n-th generateShortCode call
NthDraw(random, n) == IF n <= random.switch THEN random.first ELSE random.rest

\* the locals of generateUniqueShortCode before the first iteration
LoopEntry == [status |-> "looping", shortCode |-> <<>>, attempts |-> 0]

\* the loop body giving up one attempt early (attempts >= 100)
iteration_OffByOne(u, random, st) ==
  LET shortCode == generateShortCode(NthDraw(random, st.attempts + 1))
      attempts == st.attempts + 1
  IN IF attempts >= 100
     THEN [status |-> "thrown", shortCode |-> shortCode, attempts |-> attempts]
     ELSE IF ~ isShortCodeUnique(u, shortCode)
          THEN [status |-> "looping", shortCode |-> shortCode, attempts |-> attempts]
          ELSE [status |-> "returned", shortCode |-> shortCode, attempts |-> attempts]

\* one iteration of the do-while of generateUniqueShortCode (lines 60-66):
\* the locals after it, and whether the loop goes on, has thrown, or is left
iteration(u, random, st) ==
  LET shortCode == generateShortCode(NthDraw(random, st.attempts + 1))
      attempts == st.attempts + 1
  IN IF attempts > 100
     THEN [status |-> "thrown", shortCode |-> shortCode, attempts |-> attempts]
     ELSE IF ~ isShortCodeUnique(u, shortCode)
          THEN [status |-> "looping", shortCode |-> shortCode, attempts |-> attempts]
          ELSE [status |-> "returned", shortCode |-> shortCode, attempts |-> attempts]

\* at most n more iterations of the do-while
RECURSIVE iterate(_, _, _, _)
iterate(u, random, st, n) ==
  IF n = 0 \/ st.status # "looping" THEN st
  ELSE iterate(u, random, iteration(u, random, st), n - 1)

\* the do-while, run until it is left or throws (evaluated ten iterations at
\* a time, which keeps the evaluation shallow)
RECURSIVE doWhile(_, _, _)
doWhile(u, random, st) ==
  LET next == iterate(u, random, st, 10)
  IN IF next.status # "looping" THEN next ELSE doWhile(u, random, next)

\* generateUniqueShortCode (lines 57-70): the code returned, or the throw,
\* with the final value of `attempts`
generateUniqueShortCode(u, random) == doWhile(u, random, LoopEntry)

\* a throw of createShortenedURL: nothing but the outcome changes
Throw(arg, error, tested) ==
  /\ last' = Outcome("create", arg, error, <<>>, 0, tested)
  /\ UNCHANGED <<urls, storage, now, nextId>>

\* Push with unshift in place of push: the record is put first
Push_Prepend(arg, shortCode, tested, writeOk) ==
  /\ Len(urls) < MaxUrls
  /\ nextId < MaxIds
  /\ LET shortenedURL == newUrl(nextId + 1, arg.originalUrl, shortCode,
                                arg.validityMinutes, now)
     IN /\ urls' = <<shortenedURL>> \o urls
        /\ storage' = saveToStorage(urls', storage, writeOk)
        /\ last' = Saving(Outcome("create", arg, NoError, <<shortenedURL>>, 1, tested), writeOk)
  /\ nextId' = nextId + 1
  /\ UNCHANGED now

\* Push that takes the record out again and throws when the write fails
Push_Rollback(arg, shortCode, tested, writeOk) ==
  /\ Len(urls) < MaxUrls
  /\ nextId < MaxIds
  /\ LET shortenedURL == newUrl(nextId + 1, arg.originalUrl, shortCode,
                                arg.validityMinutes, now)
     IN IF writeOk
        THEN /\ urls' = Append(urls, shortenedURL)
             /\ storage' = saveToStorage(urls', storage, writeOk)
             /\ last' = Saving(Outcome("create", arg, NoError, <<shortenedURL>>, 1, tested), writeOk)
        ELSE /\ urls' = urls
             /\ storage' = storage
             /\ last' = Saving(Outcome("create", arg, "QuotaExceededError", <<>>, 1, tested), writeOk)
  /\ nextId' = nextId + 1
  /\ UNCHANGED now

\* lines 118-142: build the record, push it, save, return it
Push(arg, shortCode, tested, writeOk) ==
  /\ Len(urls) < MaxUrls
  /\ nextId < MaxIds
  /\ LET shortenedURL == newUrl(nextId + 1, arg.originalUrl, shortCode,
                                  arg.validityMinutes, now)
       IN /\ urls' = Append(urls, shortenedURL)
          /\ storage' = saveToStorage(urls', storage, writeOk)
          /\ last' = Saving(Outcome("create", arg, NoError, <<shortenedURL>>, 1, tested), writeOk)
  /\ nextId' = nextId + 1
  /\ UNCHANGED now

\* the validity check of line 95
validityOutOfRange(validityMinutes) ==
  validityMinutes <= Minutes(0) \/ validityMinutes > Minutes(10080)

createShortenedURL(arg, writeOk) ==
  IF ~ isValidUrl(arg.originalUrl) THEN Throw(arg, InvalidUrl, 0)
  ELSE IF validityOutOfRange(arg.validityMinutes) THEN Throw(arg, InvalidValidity, 0)
  ELSE IF Truthy(arg.customShortcode)
       THEN IF ~ isValidShortCode(arg.customShortcode.value) THEN Throw(arg, InvalidAlias, 0)
            ELSE IF ~ isShortCodeUnique(urls, arg.customShortcode.value)
                 THEN Throw(arg, AliasTaken, 0)
                 ELSE Push(arg, arg.customShortcode.value, 0, writeOk)
       ELSE LET g == generateUniqueShortCode(urls, arg.random)
            IN IF g.status = "thrown"
               THEN Throw(arg, AliasGenerationExhausted, g.attempts)
               ELSE Push(arg, g.shortCode, g.attempts, writeOk)

----------------------------------------------------------------------------
(* getURLByShortCode *)

\* resolveUrls that flags every record it finds, expired or not
resolveUrls_MarkFound(u, code, t) ==
  LET i == findByShortCode(u, code)
  IN IF i # 0 THEN [u EXCEPT ![i].isExpired = TRUE] ELSE u

\* the collection after getURLByShortCode(code) at instant t
resolveUrls(u, code, t) ==
  LET i == findByShortCode(u, code)
  IN IF i # 0 /\ t > u[i].expiresAt
     THEN [u EXCEPT ![i].isExpired = TRUE]
     ELSE u

\* TRUE when getURLByShortCode(code) at instant t calls saveToStorage
resolveSaves(u, code, t) ==
  LET i == findByShortCode(u, code)
  IN i # 0 /\ t > u[i].expiresAt

\* resolveResult with now >= expiresAt as the expiry test
resolveResult_Strict(u, code, t) ==
  LET i == findByShortCode(u, code)
  IN IF i = 0 THEN <<>>
     ELSE IF t >= u[i].expiresAt THEN <<>> ELSE <<u[i]>>

\* what getURLByShortCode(code) returns at instant t: <<>> for null
resolveResult(u, code, t) ==
  LET i == findByShortCode(u, code)
  IN IF i = 0 THEN <<>>
     ELSE IF t > u[i].expiresAt THEN <<>> ELSE <<u[i]>>

getURLByShortCode(code, writeOk) ==
  /\ urls' = resolveUrls(urls, code, now)
  /\ IF resolveSaves(urls, code, now)
     THEN /\ storage' = saveToStorage(urls', storage, writeOk)
          /\ last' = Saving(Outcome("resolve", code, NoError, resolveResult(urls, code, now), 1, 0), writeOk)
     ELSE /\ storage' = storage
          /\ last' = Outcome("resolve", code, NoError, resolveResult(urls, code, now), 0, 0)
  /\ UNCHANGED <<now, nextId>>

----------------------------------------------------------------------------
(* recordClick *)

recordClick(code, source, location, writeOk) ==
  /\ LET resolved == resolveUrls(urls, code, now)
         url == resolveResult(urls, code, now)
         i == findByShortCode(urls, code)
     IN IF url = <<>>
        THEN /\ urls' = resolved
             /\ IF resolveSaves(urls, code, now)
                THEN /\ storage' = saveToStorage(urls', storage, writeOk)
                     /\ last' = Saving(Outcome("recordClick", <<code, source>>, NoError, <<FALSE>>, 1, 0), writeOk)
                ELSE /\ storage' = storage
                     /\ last' = Outcome("recordClick", <<code, source>>, NoError, <<FALSE>>, 0, 0)
             /\ UNCHANGED nextId
        ELSE /\ Len(urls[i].clicks) < MaxClicks
             /\ nextId < MaxIds
             /\ LET clickData == newClick(nextId + 1, now, source, location)
                IN urls' = [resolved EXCEPT ![i].clicks = Append(@, clickData)]
             /\ storage' = saveToStorage(urls', storage, writeOk)
             /\ last' = Saving(Outcome("recordClick", <<code, source>>, NoError, <<TRUE>>, 1, 0), writeOk)
             /\ nextId' = nextId + 1
  /\ UNCHANGED now

----------------------------------------------------------------------------
(* getAllURLs, getActiveURLsCount, deleteURL *)

\* updateExpired that flips the flag of a record past its expiresAt where
\* the code sets it
updateExpired_Toggle(u, t) ==
  [i \in 1..Len(u) |->
     [u[i] EXCEPT !.isExpired = IF t > u[i].expiresAt THEN ~ @ ELSE FALSE]]

\* updateExpired that also recomputes expiresAt, counting the validity from t
updateExpired_Recompute(u, t) ==
  [i \in 1..Len(u) |->
     [u[i] EXCEPT !.isExpired = t > u[i].expiresAt,
                  !.expiresAt = t + ValidityMs(u[i].validityMinutes)]]

\* updateExpired with now >= expiresAt as the expiry test
updateExpired_AtExpiry(u, t) ==
  [i \in 1..Len(u) |-> [u[i] EXCEPT !.isExpired = t >= u[i].expiresAt]]

\* lines 193-196: the expired status of every record, recomputed at instant t
updateExpired(u, t) == [i \in 1..Len(u) |-> [u[i] EXCEPT !.isExpired = t > u[i].expiresAt]]

getAllURLs(writeOk) ==
  /\ urls' = updateExpired(urls, now)
  /\ storage' = saveToStorage(urls', storage, writeOk)
  /\ last' = Saving(Outcome("list", <<>>, NoError, <<sortByCreatedAtDesc(urls')>>, 1, 0), writeOk)
  /\ UNCHANGED <<now, nextId>>

\* activeCount that trusts the cached flag: filter(url => !url.isExpired)
activeCount_ByFlag(u, t) == Cardinality({i \in 1..Len(u) : ~ u[i].isExpired})

\* this.urls.filter(url => now <= url.expiresAt).length at instant t
activeCount(u, t) == Cardinality({i \in 1..Len(u) : t <= u[i].expiresAt})

getActiveURLsCount ==
  /\ last' = Outcome("countActive", <<>>, NoError, <<activeCount(urls, now)>>, 0, 0)
  /\ UNCHANGED <<urls, storage, now, nextId>>
  /\ UNCHANGED <<loggerVars, pageVars>>

\* deleteURL without the test of lines 209-212: splice(-1, 1) removes the
\* last record when no record has the id
deleteURL_NoGuard(id, writeOk) ==
  /\ LET index == findIndexById(urls, id)
     IN /\ urls' = IF index # 0 THEN splice(urls, index)
                   ELSE SubSeq(urls, 1, Len(urls) - 1)
        /\ storage' = saveToStorage(urls', storage, writeOk)
        /\ last' = Saving(Outcome("delete", id, NoError, <<TRUE>>, 1, 0), writeOk)
  /\ UNCHANGED <<now, nextId>>

deleteURL(id, writeOk) ==
  /\ LET index == findIndexById(urls, id)
     IN IF index = 0
        THEN /\ last' = Outcome("delete", id, NoError, <<FALSE>>, 0, 0)
             /\ UNCHANGED <<urls, storage>>
        ELSE /\ urls' = splice(urls, index)
             /\ storage' = saveToStorage(urls', storage, writeOk)
             /\ last' = Saving(Outcome("delete", id, NoError, <<TRUE>>, 1, 0), writeOk)
  /\ UNCHANGED <<now, nextId>>

----------------------------------------------------------------------------
(* The environment: the clock, and a page load that constructs a new       *)
(* URLShortenerService over what localStorage holds                        *)

Tick(d) ==
  /\ now + d <= MaxNow
  /\ now' = now + d
  /\ last' = Outcome("tick", d, NoError, <<>>, 0, 0)
  /\ UNCHANGED <<urls, storage, nextId>>

\* constructor (lines 10-13)
Construct(readOk) ==
  /\ urls' = loadFromStorage(storage, readOk)
  /\ last' = Outcome("construct", readOk, NoError, <<>>, 0, 0)
  /\ UNCHANGED <<storage, now, nextId>>

----------------------------------------------------------------------------

Create ==
  /\ \E arg \in CreateInputs, writeOk \in WriteOutcomes : createShortenedURL(arg, writeOk)
  /\ UNCHANGED <<loggerVars, pageVars>>

Resolve ==
  /\ \E code \in ShortCodeInputs, writeOk \in WriteOutcomes : getURLByShortCode(code, writeOk)
  /\ UNCHANGED <<loggerVars, pageVars>>

RecordClick ==
  /\ \E code \in ShortCodeInputs, source \in SourceInputs, location \in LocationDraws,
       writeOk \in WriteOutcomes :
       recordClick(code, source, location, writeOk)
  /\ UNCHANGED <<loggerVars, pageVars>>

List ==
  /\ \E writeOk \in WriteOutcomes : getAllURLs(writeOk)
  /\ UNCHANGED <<loggerVars, pageVars>>

Delete ==
  /\ \E id \in 1..(nextId + 1), writeOk \in WriteOutcomes : deleteURL(id, writeOk)
  /\ UNCHANGED <<loggerVars, pageVars>>

Advance ==
  /\ \E d \in TickInputs : Tick(d)
  /\ UNCHANGED <<loggerVars, pageVars>>

Load ==
  /\ \E readOk \in ReadOutcomes : Construct(readOk)
  /\ UNCHANGED <<loggerVars, pageVars>>

Next ==
  \/ Create
  \/ Resolve
  \/ RecordClick
  \/ List
  \/ getActiveURLsCount
  \/ Delete
  \/ Advance
  \/ Load

Spec == Init /\ [][Next]_vars

----------------------------------------------------------------------------
(* The registry under creates without customAlias only, with runs of       *)
(* Math.random that repeat one candidate 0, 1, 99 or 100 times             *)

GenRandomInputs == { Random(k, DrawA, DrawB) : k \in {0, 1, 99, 100} }

GenCreateInputs ==
  { CreateArg("https://x.com", Minutes(1), Undefined, random) : random \in GenRandomInputs }

GenCreate ==
  /\ \E arg \in GenCreateInputs, writeOk \in WriteOutcomes : createShortenedURL(arg, writeOk)
  /\ UNCHANGED <<loggerVars, pageVars>>

GenNext ==
  \/ GenCreate
  \/ Delete
  \/ Advance

GenSpec == Init /\ [][GenNext]_vars

----------------------------------------------------------------------------
(* The registry over a localStorage that may fail: any setItem may throw    *)
(* (QuotaExceededError), which saveToStorage catches, and the read or the   *)
(* parse at construction may throw, which loadFromStorage catches           *)

FaultWriteOutcomes == {TRUE, FALSE}

FaultCreateInputs ==
  { CreateArg("https://x.com", Minutes(1), customShortcode, Random(1, DrawA, DrawB)) :
      customShortcode \in {Undefined, Str(Repeat("Z", 20))} }

FaultCreate ==
  /\ \E arg \in FaultCreateInputs, writeOk \in FaultWriteOutcomes :
       createShortenedURL(arg, writeOk)
  /\ UNCHANGED <<loggerVars, pageVars>>

FaultResolve ==
  /\ \E code \in ShortCodeInputs, writeOk \in FaultWriteOutcomes : getURLByShortCode(code, writeOk)
  /\ UNCHANGED <<loggerVars, pageVars>>

FaultRecordClick ==
  /\ \E code \in ShortCodeInputs, location \in LocationDraws, writeOk \in FaultWriteOutcomes :
       recordClick(code, "direct", location, writeOk)
  /\ UNCHANGED <<loggerVars, pageVars>>

FaultList ==
  /\ \E writeOk \in FaultWriteOutcomes : getAllURLs(writeOk)
  /\ UNCHANGED <<loggerVars, pageVars>>

FaultDelete ==
  /\ \E id \in 1..(nextId + 1), writeOk \in FaultWriteOutcomes : deleteURL(id, writeOk)
  /\ UNCHANGED <<loggerVars, pageVars>>

\* getItem may throw, or the stored string may not parse
FaultReadOutcomes == {TRUE, FALSE}

FaultLoad ==
  /\ \E readOk \in FaultReadOutcomes : Construct(readOk)
  /\ UNCHANGED <<loggerVars, pageVars>>

FaultNext ==
  \/ FaultCreate
  \/ FaultResolve
  \/ FaultRecordClick
  \/ FaultList
  \/ getActiveURLsCount
  \/ FaultDelete
  \/ Advance
  \/ FaultLoad

FaultSpec == Init /\ [][FaultNext]_vars

----------------------------------------------------------------------------
(* Logger: createLog, addLog, notifyListeners, info / warn / error / debug, *)
(* getLogs, subscribe, initialize.  The context of an entry is left out.    *)

\* addLog keeps the last 1000 entries (lines 246-248)
LogLimit == 1000

MaxLogged == 1001     \* no logging call once this many ids were handed out
MaxListeners == 2     \* subscribe is not called while this many are subscribed

Levels == {"info", "warn", "error", "debug"}

ListenerInputs == {"setLogs", "other"}

LogWriteOutcomes == {TRUE}

createLog(level, message, component, id, t) ==
  [ id |-> id, timestamp |-> t, level |-> level, message |-> message,
    component |-> component ]

\* JSON.stringify(this.logs), and the mapping initialize applies to the
\* parsed array
stringifyLogs(l) == [i \in 1..Len(l) |-> [l[i] EXCEPT !.timestamp = toISOString(@)]]
reviveLogs(parsed) == [i \in 1..Len(parsed) |-> [parsed[i] EXCEPT !.timestamp = parseDate(@)]]

\* slice(0, n) in place of slice(-n): the first n entries
slice_First(l, n) == SubSeq(l, 1, n)

\* l.slice(-n): the last n entries of l
slice(l, n) == IF Len(l) > n THEN SubSeq(l, Len(l) - n + 1, Len(l)) ELSE l

\* lines 246-248: the log addLog keeps of the log it has pushed onto
trimmed(l) == IF Len(l) > LogLimit THEN slice(l, LogLimit) ELSE l

\* lines 251-255: the stored log after addLog's setItem
persistLogs(l, stored, writeOk) == IF writeOk THEN <<stringifyLogs(l)>> ELSE stored

\* notifyListeners: every subscription is called with a copy of the log
notifyListeners(ls, l) == [k \in 1..Len(ls) |-> [listener |-> ls[k], logs |-> l]]

\* getLogs()
getLogs == logs

\* addLog (lines 241-256): push, notify, trim, persist
addLog(log, writeOk) ==
  /\ delivered' = notifyListeners(listeners, Append(logs, log))
  /\ logs' = trimmed(Append(logs, log))
  /\ logStorage' = persistLogs(logs', logStorage, writeOk)

\* the body shared by info, warn, error and debug
logCall(level, message, component, writeOk) ==
  /\ nextId < MaxLogged
  /\ addLog(createLog(level, message, component, nextId + 1, now), writeOk)
  /\ nextId' = nextId + 1
  /\ last' = Outcome(level, message, NoError, <<>>, 0, 0)
  /\ UNCHANGED <<urls, storage, now, listeners, handles, pageVars>>

info(message, component, writeOk) == logCall("info", message, component, writeOk)
warn(message, component, writeOk) == logCall("warn", message, component, writeOk)
error(message, component, writeOk) == logCall("error", message, component, writeOk)
debug(message, component, writeOk) == logCall("debug", message, component, writeOk)

\* subscribe (lines 290-295); the handle it returns is kept by the caller
subscribe(listener) ==
  /\ Len(listeners) < MaxListeners
  /\ listeners' = Append(listeners, listener)
  /\ handles' = handles \cup {listener}
  /\ last' = Outcome("subscribe", listener, NoError, <<>>, 0, 0)
  /\ UNCHANGED <<urls, storage, now, nextId, logs, logStorage, delivered, pageVars>>

\* this.listeners.filter(l => l !== listener)
RECURSIVE filterOut(_, _)
filterOut(ls, listener) ==
  IF ls = <<>> THEN <<>>
  ELSE IF Head(ls) # listener
       THEN <<Head(ls)>> \o filterOut(Tail(ls), listener)
       ELSE filterOut(Tail(ls), listener)

\* a handle that drops the newest subscription: this.listeners.pop()
unsubscribe_Pop(listener) ==
  /\ listener \in handles
  /\ listeners' = SubSeq(listeners, 1, Len(listeners) - 1)
  /\ last' = Outcome("unsubscribe", listener, NoError, <<>>, 0, 0)
  /\ UNCHANGED <<urls, storage, now, nextId, logs, handles, logStorage, delivered, pageVars>>

\* a call of the handle subscribe(listener) returned (lines 292-294)
unsubscribe(listener) ==
  /\ listener \in handles
  /\ listeners' = filterOut(listeners, listener)
  /\ last' = Outcome("unsubscribe", listener, NoError, <<>>, 0, 0)
  /\ UNCHANGED <<urls, storage, now, nextId, logs, handles, logStorage, delivered, pageVars>>

\* one logger.info(message, ..., component) of the start-up, on the logger
\* state st = [logs, stored, id]
startLog(st, message, component, t, writeOk) ==
  LET l == trimmed(Append(st.logs, createLog("info", message, component, st.id + 1, t)))
  IN [logs |-> l, stored |-> persistLogs(l, st.stored, writeOk), id |-> st.id + 1]

\* initialize (lines 297-311) on the logger state st
initialize(st, t, writeOk) ==
  LET restored == IF st.stored # <<>> THEN reviveLogs(st.stored[1]) ELSE st.logs
  IN startLog([st EXCEPT !.logs = restored], "Logger initialized", "Logger", t, writeOk)

\* a load of the page on the home route: the modules are evaluated (a new
\* Logger with no entries, then the URLShortenerService constructor, which
\* logs), Home's effect logs, then App's effect calls initialize and logs
Start(writeOk) ==
  /\ nextId < MaxLogged
  /\ LET st0 == [logs |-> <<>>, stored |-> logStorage, id |-> nextId]
         st1 == IF storage # <<>>
                THEN startLog(st0, "URLs loaded from storage", "URLShortenerService", now, writeOk)
                ELSE st0
         st2 == startLog(st1, "URLShortenerService initialized", "URLShortenerService", now, writeOk)
         st3 == startLog(st2, "Home page mounted", "Home", now, writeOk)
         st4 == initialize(st3, now, writeOk)
         st5 == startLog(st4, "Application started", "App", now, writeOk)
     IN /\ logs' = st5.logs
        /\ logStorage' = st5.stored
        /\ nextId' = st5.id
  /\ urls' = loadFromStorage(storage, TRUE)
  /\ listeners' = <<>>
  /\ handles' = {}
  /\ delivered' = <<>>
  /\ redirect' = [status |-> "loading", originalUrl |-> ""]
  /\ home' = [createdUrls |-> <<>>, isSubmitting |-> FALSE]
  /\ last' = Outcome("start", <<>>, NoError, <<>>, 0, 0)
  /\ UNCHANGED <<storage, now, tabUrls>>

\* a logger in which 999 entries have been logged with info, none of them
\* evicted yet, and written to localStorage
LogInit ==
  /\ urls = <<>>
  /\ storage = <<>>
  /\ now = 0
  /\ nextId = LogLimit - 1
  /\ last = Outcome("info", "m", NoError, <<>>, 0, 0)
  /\ logs = [i \in 1..(LogLimit - 1) |-> createLog("info", "m", "Home", i, 0)]
  /\ listeners = <<>>
  /\ handles = {}
  /\ logStorage = <<stringifyLogs(logs)>>
  /\ delivered = <<>>
  /\ redirect = [status |-> "loading", originalUrl |-> ""]
  /\ home = [createdUrls |-> <<>>, isSubmitting |-> FALSE]
  /\ tabUrls = <<>>

Info == \E writeOk \in LogWriteOutcomes : info("m", "Home", writeOk)
Error == \E writeOk \in LogWriteOutcomes : error("m", "Home", writeOk)
Subscribe == \E listener \in ListenerInputs : subscribe(listener)
Unsubscribe == \E listener \in ListenerInputs : unsubscribe(listener)
PageLoad == \E writeOk \in LogWriteOutcomes : Start(writeOk)

LogNext ==
  \/ Info
  \/ Error
  \/ Subscribe
  \/ Unsubscribe
  \/ PageLoad

LogSpec == LogInit /\ [][LogNext]_vars

----------------------------------------------------------------------------
(* The pages: Home.handleFormSubmit and the effect of Redirect.  The log    *)
(* entries the pages and the registry write are left out here; the Logger   *)
(* is specified on its own above.                                           *)

\* what createShortenedURL(arg) does on the collection u: the message of
\* the error it throws, or the short code of the record it pushes
created(u, arg) ==
  IF ~ isValidUrl(arg.originalUrl) THEN [error |-> InvalidUrl, shortCode |-> <<>>]
  ELSE IF validityOutOfRange(arg.validityMinutes) THEN [error |-> InvalidValidity, shortCode |-> <<>>]
  ELSE IF Truthy(arg.customShortcode)
       THEN IF ~ isValidShortCode(arg.customShortcode.value)
            THEN [error |-> InvalidAlias, shortCode |-> <<>>]
            ELSE IF ~ isShortCodeUnique(u, arg.customShortcode.value)
                 THEN [error |-> AliasTaken, shortCode |-> <<>>]
                 ELSE [error |-> NoError, shortCode |-> arg.customShortcode.value]
       ELSE LET g == generateUniqueShortCode(u, arg.random)
            IN IF g.status = "thrown"
               THEN [error |-> AliasGenerationExhausted, shortCode |-> <<>>]
               ELSE [error |-> NoError, shortCode |-> g.shortCode]

\* an entry of the form: customShortcode is a string, "" when left empty
URLFormData(originalUrl, validityMinutes, customShortcode) ==
  [ originalUrl |-> originalUrl, validityMinutes |-> validityMinutes,
    customShortcode |-> customShortcode ]

\* urlData.customShortcode || undefined
orUndefined(customShortcode) ==
  IF customShortcode = <<>> THEN Undefined ELSE Str(customShortcode)

\* the locals of handleFormSubmit before the loop
SubmitEntry(u, stored, id) ==
  [ urls |-> u, storage |-> stored, id |-> id, newUrls |-> <<>>,
    error |-> NoError, attempted |-> 0 ]

\* one iteration of the for loop of lines 23-38 at instant t; the loop is
\* left by the rethrow of line 36
submitOne(st, urlData, t, writeOk) ==
  LET arg == CreateArg(urlData.originalUrl, urlData.validityMinutes,
                       orUndefined(urlData.customShortcode), Random(1, DrawA, DrawB))
      c == created(st.urls, arg)
      shortenedUrl == newUrl(st.id + 1, arg.originalUrl, c.shortCode, arg.validityMinutes, t)
  IN IF c.error # NoError
     THEN [st EXCEPT !.error = c.error, !.attempted = @ + 1]
     ELSE [st EXCEPT !.urls = Append(@, shortenedUrl),
                     !.storage = saveToStorage(Append(st.urls, shortenedUrl), @, writeOk),
                     !.id = @ + 1,
                     !.newUrls = Append(@, shortenedUrl),
                     !.attempted = @ + 1]

\* the for loop over the entries of the batch
RECURSIVE submitLoop(_, _, _, _)
submitLoop(st, batch, t, writeOk) ==
  IF batch = <<>> \/ st.error # NoError THEN st
  ELSE submitLoop(submitOne(st, Head(batch), t, writeOk), Tail(batch), t, writeOk)

\* handleFormSubmit that undoes the batch when an entry fails
handleFormSubmit_Rollback(batch, writeOk) ==
  LET st == submitLoop(SubmitEntry(urls, storage, nextId), batch, now, writeOk)
  IN /\ Len(st.urls) <= MaxUrls
     /\ st.id <= MaxIds
     /\ urls' = IF st.error = NoError THEN st.urls ELSE urls
     /\ storage' = IF st.error = NoError THEN st.storage
                    ELSE saveToStorage(urls, st.storage, writeOk)
     /\ nextId' = st.id
     /\ home' = [createdUrls |-> IF st.error = NoError THEN st.newUrls ELSE home.createdUrls,
                 isSubmitting |-> FALSE]
     /\ last' = Outcome("submit", batch, st.error, <<st.newUrls>>, Len(st.newUrls), st.attempted)
     /\ UNCHANGED <<now, loggerVars, redirect, tabUrls>>

\* handleFormSubmit (lines 16-48): setCreatedUrls is reached when no entry
\* threw, the alert otherwise, setIsSubmitting(false) in both cases
handleFormSubmit(batch, writeOk) ==
  LET st == submitLoop(SubmitEntry(urls, storage, nextId), batch, now, writeOk)
  IN /\ Len(st.urls) <= MaxUrls
     /\ st.id <= MaxIds
     /\ urls' = st.urls
     /\ storage' = st.storage
     /\ nextId' = st.id
     /\ home' = [createdUrls |-> IF st.error = NoError THEN st.newUrls ELSE home.createdUrls,
                 isSubmitting |-> FALSE]
     /\ last' = Outcome("submit", batch, st.error, <<st.newUrls>>, Len(st.newUrls), st.attempted)
     /\ UNCHANGED <<now, loggerVars, redirect, tabUrls>>

\* the effect of Redirect for /s/code (lines 13-60).  getURLByShortCode
\* reads the clock at line 21 and recordClick reads it again at line 37, d
\* milliseconds later; the value recordClick returns is not looked at
RedirectEffect(code, source, location, d, writeOk) ==
  LET url == resolveResult(urls, code, now)
      i == findByShortCode(urls, code)
  IN /\ now + d <= MaxNow
     /\ IF url = <<>>
        THEN /\ urls' = resolveUrls(urls, code, now)
             /\ storage' = IF resolveSaves(urls, code, now)
                           THEN saveToStorage(urls', storage, writeOk) ELSE storage
             /\ redirect' = [status |-> "notfound", originalUrl |-> ""]
             /\ last' = Outcome("redirect", <<code, source>>, NoError, <<>>,
                                IF resolveSaves(urls, code, now) THEN 1 ELSE 0, 0)
             /\ UNCHANGED <<now, nextId>>
        ELSE IF url[1].isExpired
        THEN /\ redirect' = [status |-> "expired", originalUrl |-> ""]
             /\ last' = Outcome("redirect", <<code, source>>, NoError, <<>>, 0, 0)
             /\ UNCHANGED <<urls, storage, now, nextId>>
        ELSE /\ now' = now + d
             /\ IF resolveResult(urls, code, now') = <<>>
                THEN /\ urls' = resolveUrls(urls, code, now')
                     /\ storage' = saveToStorage(urls', storage, writeOk)
                     /\ last' = Outcome("redirect", <<code, source>>, NoError, <<FALSE>>, 1, 0)
                     /\ UNCHANGED nextId
                ELSE /\ Len(urls[i].clicks) < MaxClicks
                     /\ nextId < MaxIds
                     /\ urls' = [urls EXCEPT ![i].clicks =
                                   Append(@, newClick(nextId + 1, now', source, location))]
                     /\ storage' = saveToStorage(urls', storage, writeOk)
                     /\ last' = Outcome("redirect", <<code, source>>, NoError, <<TRUE>>, 1, 0)
                     /\ nextId' = nextId + 1
             /\ redirect' = [status |-> "found", originalUrl |-> url[1].originalUrl]
     /\ UNCHANGED <<loggerVars, home, tabUrls>>

\* the batches the form is submitted with.  An entry leaves the short code
\* empty, asks for twenty times "Z", or has an originalUrl that does not
\* parse
FormGenerated == URLFormData("https://x.com", Minutes(1), <<>>)
FormCustom == URLFormData("https://x.com", Minutes(1), Repeat("Z", 20))
FormUnparsable == URLFormData("not-a-url", Minutes(1), <<>>)

BatchInputs ==
  { <<FormGenerated>>,
    <<FormGenerated, FormCustom>>,
    <<FormCustom, FormCustom, FormGenerated>>,
    <<FormGenerated, FormUnparsable, FormCustom>> }

\* the clock readings of lines 21 and 37 are the same, or a millisecond apart
RedirectDelays == {0, 1}

HomeSubmit ==
  \E batch \in BatchInputs, writeOk \in WriteOutcomes :
    handleFormSubmit(batch, writeOk)

\* document.referrer is empty: the short URL was typed or opened by
\* window.open from the results list
ReferrerInputs == {""}

\* document.referrer || 'direct'
orDirect(referrer) == IF referrer = "" THEN "direct" ELSE referrer

RedirectLoad ==
  \E code \in ShortCodeInputs, referrer \in ReferrerInputs, location \in LocationDraws,
     d \in RedirectDelays, writeOk \in WriteOutcomes :
     RedirectEffect(code, orDirect(referrer), location, d, writeOk)

\* the clock moves on by the validity of the links the form creates
Wait ==
  /\ Tick(ValidityMs(Minutes(1)))
  /\ UNCHANGED <<loggerVars, pageVars>>

AppNext ==
  \/ HomeSubmit
  \/ RedirectLoad
  \/ Wait

AppSpec == Init /\ [][AppNext]_vars

----------------------------------------------------------------------------
(* Two tabs: each page holds its own URLShortenerService over the same      *)
(* localStorage.  urls is the collection of the tab that is being used,     *)
(* tabUrls the collection of the tab in the background.                     *)

\* the user turns to the other tab
SwitchTab ==
  /\ urls' = tabUrls
  /\ tabUrls' = urls
  /\ last' = Outcome("switch", <<>>, NoError, <<>>, 0, 0)
  /\ UNCHANGED <<storage, now, nextId, loggerVars, redirect, home>>

\* window.open(url, '_blank') of URLResults.openInNewTab: the tab used so
\* far goes to the background and the new tab's module constructs a
\* URLShortenerService over what localStorage holds
openInNewTab(readOk) ==
  /\ tabUrls' = urls
  /\ urls' = loadFromStorage(storage, readOk)
  /\ last' = Outcome("open", readOk, NoError, <<>>, 0, 0)
  /\ UNCHANGED <<storage, now, nextId, loggerVars, redirect, home>>

\* the calls made in the tabs: a link with the alias twenty times "Z" is
\* created, and visited
TabCreateInputs ==
  { CreateArg("https://x.com", Minutes(1), Str(Repeat("Z", 20)), Random(1, DrawA, DrawB)) }

TabCreate ==
  /\ \E arg \in TabCreateInputs, writeOk \in WriteOutcomes : createShortenedURL(arg, writeOk)
  /\ UNCHANGED <<loggerVars, pageVars>>

TabRecordClick ==
  /\ \E location \in LocationDraws, writeOk \in WriteOutcomes :
       recordClick(Repeat("Z", 20), "direct", location, writeOk)
  /\ UNCHANGED <<loggerVars, pageVars>>

OpenTab == \E readOk \in ReadOutcomes : openInNewTab(readOk)

TabNext ==
  \/ TabCreate
  \/ TabRecordClick
  \/ List
  \/ Delete
  \/ SwitchTab
  \/ OpenTab

TabSpec == Init /\ [][TabNext]_vars

----------------------------------------------------------------------------
(* Vocabulary of the properties *)

\* the string is 1 to 20 characters, all in [A-Za-z0-9]
Alphanumeric1to20(str) ==
  /\ Len(str) \in 1..20
  /\ \A k \in 1..Len(str) : str[k] \in Lower \cup Upper \cup Digit

\* the records of u that hold the alias
Holders(u, alias) == {i \in 1..Len(u) : u[i].shortCode = alias}

\* the step is a finished call of the operation
Did(op) == last.op = op

\* a create call whose originalUrl parses
UrlOk == last.arg.originalUrl \in ParsableUrls

\* a create call whose validityMinutes is in the closed interval [1, 10080]
ValidityOk ==
  last.arg.validityMinutes >= Minutes(1) /\ last.arg.validityMinutes <= Minutes(10080)

----------------------------------------------------------------------------
(* C1 *)

\* C1: no two records held by the registry have the same alias, after any
\* sequence of create, resolve, recordVisit, list, countActive and deleteLink
\* calls, successful or failing.
C1_AliasUniqueness ==
  \A i \in 1..Len(urls) : \A j \in 1..Len(urls) :
    i # j => urls[i].shortCode # urls[j].shortCode

\* two records are held and the last create was refused because its alias is taken
C1_Witness ==
  /\ Len(urls) = 2
  /\ Did("create")
  /\ last.error = AliasTaken

----------------------------------------------------------------------------
(* C2 *)

\* C2: every successful create returns a record whose expiresAt is its
\* createdAt plus validityMinutes * 60000 ms, with no visits, isExpired false,
\* the given originalUrl and validityMinutes, and targetShortUrl = base prefix
\* followed by the alias.  (validityMinutes counts half minutes, so both
\* sides of the equation are doubled.)
C2_CreatedRecord ==
  (Did("create") /\ last.error = NoError) =>
    LET r == last.ret[1]
    IN /\ Len(last.ret) = 1
       /\ r.createdAt = now
       /\ 2 * (r.expiresAt - r.createdAt) = last.arg.validityMinutes * 60000
       /\ r.validityMinutes = last.arg.validityMinutes
       /\ r.clicks = <<>>
       /\ r.isExpired = FALSE
       /\ r.originalUrl = last.arg.originalUrl
       /\ r.shortUrl = origin \o <<"/", "s", "/">> \o r.shortCode

\* a create at a later instant than 0 returned a record valid for a week
C2_Witness ==
  /\ Did("create")
  /\ last.error = NoError
  /\ last.arg.validityMinutes = Minutes(10080)
  /\ now > 0
  /\ last.ret[1].expiresAt = now + 604800000

----------------------------------------------------------------------------
(* C3 *)

\* C3: create fails with InvalidValidity for every validityMinutes, whole or
\* fractional, outside [1, 10080] and passes that check for every value
\* inside it; so every held record has a validityMinutes that is a positive
\* integer no greater than 10080.
C3_ValidityRange ==
  /\ (Did("create") /\ UrlOk) => (last.error = InvalidValidity <=> ~ ValidityOk)
  /\ \A i \in 1..Len(urls) :
       /\ urls[i].validityMinutes % 2 = 0
       /\ urls[i].validityMinutes >= Minutes(1)
       /\ urls[i].validityMinutes <= Minutes(10080)

----------------------------------------------------------------------------
(* C4 *)

\* C4 as stated: whenever a customAlias string of any length from 0 upwards
\* is passed, create fails with InvalidAlias unless the string is 1 to 20
\* alphanumeric characters; on success the stored alias is the customAlias;
\* every held alias is 1 to 20 alphanumeric characters.
C4_Original ==
  /\ (Did("create") /\ UrlOk /\ ValidityOk /\ last.arg.customShortcode.given) =>
       /\ last.error = InvalidAlias <=> ~ Alphanumeric1to20(last.arg.customShortcode.value)
       /\ last.error = NoError => last.ret[1].shortCode = last.arg.customShortcode.value
  /\ \A i \in 1..Len(urls) : Alphanumeric1to20(urls[i].shortCode)

\* C4, amended: whenever a non-empty customAlias string is passed, create
\* fails with InvalidAlias unless the string is 1 to 20 alphanumeric
\* characters, and on success the stored alias is the customAlias; an empty
\* customAlias is treated as no customAlias (it is never refused as
\* InvalidAlias and the alias is generated); every held alias is 1 to 20
\* alphanumeric characters.
C4_CustomAlias ==
  /\ ( /\ Did("create") /\ UrlOk /\ ValidityOk
       /\ last.arg.customShortcode.given
       /\ last.arg.customShortcode.value # <<>> ) =>
       /\ last.error = InvalidAlias <=> ~ Alphanumeric1to20(last.arg.customShortcode.value)
       /\ last.error = NoError => last.ret[1].shortCode = last.arg.customShortcode.value
  /\ ( /\ Did("create") /\ UrlOk /\ ValidityOk
       /\ last.arg.customShortcode.given
       /\ last.arg.customShortcode.value = <<>> ) =>
       /\ last.error \in {NoError, AliasGenerationExhausted}
       /\ last.error = NoError => last.attempts >= 1
  /\ \A i \in 1..Len(urls) : Alphanumeric1to20(urls[i].shortCode)

\* a customAlias of 21 letters was refused while a record with a 20-letter
\* custom alias is held
C4_Witness ==
  /\ Did("create")
  /\ last.error = InvalidAlias
  /\ Len(last.arg.customShortcode.value) = 21
  /\ \E i \in 1..Len(urls) : Len(urls[i].shortCode) = 20

----------------------------------------------------------------------------
(* C5 *)

\* C5: create with a valid customAlias fails with AliasTaken if and only if
\* a record held at the call, expired or not, has that alias; otherwise it
\* succeeds.  So expiry never frees an alias and deleteLink of the holder
\* does.
C5_AliasOccupied ==
  [][ ( /\ last'.op = "create"
        /\ last'.arg.originalUrl \in ParsableUrls
        /\ last'.arg.validityMinutes >= Minutes(1)
        /\ last'.arg.validityMinutes <= Minutes(10080)
        /\ last'.arg.customShortcode.given
        /\ Alphanumeric1to20(last'.arg.customShortcode.value) ) =>
        /\ last'.error = AliasTaken <=> Holders(urls, last'.arg.customShortcode.value) # {}
        /\ last'.error = NoError <=> Holders(urls, last'.arg.customShortcode.value) = {} ]_vars

\* a create was refused with AliasTaken although the only holder of the alias
\* has expired
C5_Witness ==
  /\ Did("create")
  /\ last.error = AliasTaken
  /\ Holders(urls, last.arg.customShortcode.value) # {}
  /\ \A i \in Holders(urls, last.arg.customShortcode.value) : now > urls[i].expiresAt

----------------------------------------------------------------------------
(* C6 *)

\* C6: when create is called without a customAlias and succeeds, the alias of
\* the record is exactly 6 characters, each from {a-z, A-Z, 0-9}, and differs
\* from the alias of every record held before the call.
C6_GeneratedAlias ==
  [][ ( /\ last'.op = "create"
        /\ ~ last'.arg.customShortcode.given
        /\ last'.error = NoError ) =>
        LET alias == last'.ret[1].shortCode
        IN /\ Len(alias) = 6
           /\ \A k \in 1..Len(alias) : alias[k] \in Lower \cup Upper \cup Digit
           /\ Holders(urls, alias) = {}
           /\ urls'[Len(urls')].shortCode = alias ]_vars

\* a create without customAlias succeeded at its second candidate, the first
\* being the alias of a held record
C6_Witness ==
  /\ Did("create")
  /\ ~ last.arg.customShortcode.given
  /\ last.error = NoError
  /\ last.attempts = 2
  /\ Len(urls) = 2

----------------------------------------------------------------------------
(* C7 *)

\* C7: alias generation is bounded at 100 attempts: it returns the first
\* candidate that does not collide with a held alias if one occurs among the
\* first 100 candidates, and fails with AliasGenerationExhausted exactly when
\* the first 100 candidates all collide; a 101st candidate is never tested
\* for uniqueness or returned.
C7_BoundedGeneration ==
  [][ ( /\ last'.op = "create"
        /\ last'.arg.originalUrl \in ParsableUrls
        /\ last'.arg.validityMinutes >= Minutes(1)
        /\ last'.arg.validityMinutes <= Minutes(10080)
        /\ ~ last'.arg.customShortcode.given ) =>
        LET candidate(n) == generateShortCode(NthDraw(last'.arg.random, n))
            free == {n \in 1..100 : Holders(urls, candidate(n)) = {}}
        IN IF free # {}
           THEN LET first == CHOOSE n \in free : \A m \in free : n <= m
                IN /\ last'.error = NoError
                   /\ last'.attempts = first
                   /\ last'.ret[1].shortCode = candidate(first)
           ELSE /\ last'.error = AliasGenerationExhausted
                /\ last'.attempts = 101
                /\ urls' = urls ]_vars

\* generation gave up after 100 colliding candidates although the candidate
\* drawn next is free
C7_Witness ==
  /\ Did("create")
  /\ last.error = AliasGenerationExhausted
  /\ last.attempts = 101
  /\ Holders(urls, generateShortCode(NthDraw(last.arg.random, 101))) = {}

----------------------------------------------------------------------------
(* C8 *)

\* C8: a successful create appends exactly the returned record at the end of
\* the in-memory collection, leaves every earlier record unchanged and writes
\* the link collection once; a failing create leaves the in-memory and the
\* persisted collection unchanged and writes nothing.
C8_CreateEffect ==
  [][ last'.op = "create" =>
        IF last'.error = NoError
        THEN /\ Len(last'.ret) = 1
             /\ urls' = Append(urls, last'.ret[1])
             /\ last'.writes = 1
             /\ storage' # <<>>
             /\ Len(storage'[1]) = Len(urls')
        ELSE /\ last'.error \in {InvalidUrl, InvalidValidity, InvalidAlias, AliasTaken,
                                 AliasGenerationExhausted}
             /\ last'.ret = <<>>
             /\ urls' = urls
             /\ storage' = storage
             /\ last'.writes = 0 ]_vars

\* a create succeeded while a record was held already
C8_Witness ==
  /\ Did("create")
  /\ last.error = NoError
  /\ Len(urls) = 2
  /\ urls[2] = last.ret[1]
  /\ urls[1].id # urls[2].id

----------------------------------------------------------------------------
(* C9 *)

\* C9: resolve(alias) returns a record if and only if a held record has
\* exactly that alias and now <= its expiresAt (the instant now = expiresAt
\* still resolves); the record returned is the held record with that alias;
\* otherwise it returns not-found.  A link with validityMinutes = 1 resolves
\* at createdAt + 59 s and does not resolve at createdAt + 61 s.
C9_Resolve ==
  Did("resolve") =>
    /\ Len(last.ret) \in {0, 1}
    /\ last.ret # <<>> <=> \E i \in Holders(urls, last.arg) : now <= urls[i].expiresAt
    /\ last.ret # <<>> => \E i \in Holders(urls, last.arg) : urls[i] = last.ret[1]
    /\ \A i \in Holders(urls, last.arg) :
         urls[i].validityMinutes = Minutes(1) =>
           /\ now = urls[i].createdAt + 59000 => last.ret # <<>>
           /\ now = urls[i].createdAt + 61000 => last.ret = <<>>

\* a resolve at the very instant expiresAt returned the record
C9_Witness ==
  /\ Did("resolve")
  /\ last.ret # <<>>
  /\ now = last.ret[1].expiresAt

----------------------------------------------------------------------------
(* C10 *)

\* C10: the only state change resolve can make is setting isExpired = true on
\* the matched record when now > its expiresAt, followed by a write of the
\* collection; when the alias is unknown or the matched record is unexpired,
\* resolve changes neither the in-memory nor the persisted collection; in no
\* case does resolve change a visit sequence.
C10_ResolveFrame ==
  [][ last'.op = "resolve" =>
        LET expired == {i \in Holders(urls, last'.arg) : now > urls[i].expiresAt}
        IN /\ Len(urls') = Len(urls)
           /\ \A i \in 1..Len(urls) :
                /\ urls'[i] = [urls[i] EXCEPT !.isExpired = (i \in expired) \/ @]
                /\ urls'[i].clicks = urls[i].clicks
           /\ IF expired # {}
              THEN /\ last'.writes = 1
                   /\ loadFromStorage(storage', TRUE) = urls'
              ELSE /\ last'.writes = 0
                   /\ urls' = urls
                   /\ storage' = storage ]_vars

\* a resolve found its record expired, set the flag and wrote the collection
C10_Witness ==
  /\ Did("resolve")
  /\ last.ret = <<>>
  /\ last.writes = 1
  /\ \E i \in Holders(urls, last.arg) : urls[i].isExpired /\ urls[i].clicks # <<>>

----------------------------------------------------------------------------
(* C11 *)

----------------------------------------------------------------------------
(* C12 *)

\* C12: list() sets isExpired of every held record to (now > expiresAt),
\* writes the collection to storage, and returns all held records (none
\* added, none dropped) with createdAt non-increasing from first to last; the
\* order of the in-memory collection itself does not change.
C12_List ==
  [][ last'.op = "list" =>
        LET out == last'.ret[1]
        IN /\ Len(urls') = Len(urls)
           /\ \A i \in 1..Len(urls) :
                urls'[i] = [urls[i] EXCEPT !.isExpired = now > urls[i].expiresAt]
           /\ last'.writes = 1
           /\ loadFromStorage(storage', TRUE) = urls'
           /\ Len(out) = Len(urls')
           /\ \A i \in 1..Len(urls') : \E j \in 1..Len(out) : out[j] = urls'[i]
           /\ \A j \in 1..Len(out) : \E i \in 1..Len(urls') : out[j] = urls'[i]
           /\ \A j \in 1..(Len(out) - 1) : out[j].createdAt >= out[j + 1].createdAt ]_vars

\* a list of two records, the older one first in memory and expired, returned
\* the newer one first
C12_Witness ==
  /\ Did("list")
  /\ Len(urls) = 2
  /\ urls[1].createdAt < urls[2].createdAt
  /\ urls[1].isExpired
  /\ ~ urls[2].isExpired
  /\ last.ret[1] = <<urls[2], urls[1]>>

----------------------------------------------------------------------------
(* C13 *)

\* C13: list is idempotent: a list call that directly follows a list call,
\* at the same instant, returns the same records in the same order with the
\* same field values (also when several records share one createdAt) and
\* leaves the in-memory and the persisted collection as the first call left
\* them.
C13_ListIdempotent ==
  [][ (last.op = "list" /\ last'.op = "list") =>
        /\ now' = now
        /\ last'.ret = last.ret
        /\ urls' = urls
        /\ storage' = storage ]_vars

\* list returned two records created at the same instant in the order the
\* collection holds them; both have expired
C13_Witness ==
  /\ Did("list")
  /\ Len(urls) = 2
  /\ urls[1].createdAt = urls[2].createdAt
  /\ urls[1].isExpired
  /\ urls[2].isExpired
  /\ last.ret[1] = urls

----------------------------------------------------------------------------
(* C14 *)

----------------------------------------------------------------------------
(* C15 *)

\* C15: deleteLink(id) with an id that no held record has returns false and
\* leaves the in-memory collection and the persisted link collection
\* unchanged, with no write of the link collection.
C15_DeleteUnknown ==
  [][ ( /\ last'.op = "delete"
        /\ \A i \in 1..Len(urls) : urls[i].id # last'.arg ) =>
        /\ last'.ret = <<FALSE>>
        /\ urls' = urls
        /\ storage' = storage
        /\ last'.writes = 0 ]_vars

\* deleteLink was called with the id of a visit while a record is held, and
\* returned false
C15_Witness ==
  /\ Did("delete")
  /\ last.ret = <<FALSE>>
  /\ Len(urls) = 1
  /\ \E k \in 1..Len(urls[1].clicks) : urls[1].clicks[k].id = last.arg

----------------------------------------------------------------------------
(* C16 *)

\* C16: deleteLink(id) with the id of a held record, active or expired,
\* returns true, removes exactly that record, keeps every other record
\* unchanged and in the same relative order, and writes the collection;
\* afterwards resolve of the removed record's alias returns not-found, no
\* held record has the id (ids of later records are fresh), and a second
\* deleteLink with the same id returns false.
C16_DeleteHeld ==
  [][ /\ ( /\ last'.op = "delete"
           /\ \E i \in 1..Len(urls) : urls[i].id = last'.arg ) =>
           LET k == CHOOSE i \in 1..Len(urls) : urls[i].id = last'.arg
               alias == urls[k].shortCode
           IN /\ last'.ret = <<TRUE>>
              /\ Len(urls') = Len(urls) - 1
              /\ \A i \in 1..Len(urls') : urls'[i] = IF i < k THEN urls[i] ELSE urls[i + 1]
              /\ last'.writes = 1
              /\ loadFromStorage(storage', TRUE) = urls'
              /\ Holders(urls', alias) = {}
              /\ resolveResult(urls', alias, now') = <<>>
              /\ \A i \in 1..Len(urls') : urls'[i].id # last'.arg
      /\ \A i \in 1..Len(urls') :
           \/ \E j \in 1..Len(urls) : urls[j].id = urls'[i].id
           \/ urls'[i].id > nextId
      /\ \A i \in 1..Len(urls) : urls[i].id <= nextId
      /\ ( /\ last.op = "delete" /\ last.ret = <<TRUE>>
           /\ last'.op = "delete" /\ last'.arg = last.arg ) =>
           last'.ret = <<FALSE>> ]_vars

\* the first of two records was deleted; the second one is still held
C16_Witness ==
  /\ Did("delete")
  /\ last.ret = <<TRUE>>
  /\ last.arg = 1
  /\ Len(urls) = 1
  /\ urls[1].id = 2

----------------------------------------------------------------------------
(* C17 *)

\* the records of u and of v that are one record (they have the same id)
Kept(u, v) == {p \in (1..Len(u)) \X (1..Len(v)) : u[p[1]].id = v[p[2]].id}

\* C17: across every operation, a record that continues to be held keeps
\* its id, originalUrl, alias, targetShortUrl, validityMinutes, createdAt and
\* expiresAt, and its visit sequence before the operation is a prefix of its
\* visit sequence after it; isExpired is the only other field that changes.
C17_RecordFrame ==
  [][ \A p \in Kept(urls, urls') :
        LET before == urls[p[1]]
            after == urls'[p[2]]
        IN /\ after.id = before.id
           /\ after.originalUrl = before.originalUrl
           /\ after.shortCode = before.shortCode
           /\ after.validityMinutes = before.validityMinutes
           /\ after.createdAt = before.createdAt
           /\ after.expiresAt = before.expiresAt
           /\ Len(after.clicks) >= Len(before.clicks)
           /\ SubSeq(after.clicks, 1, Len(before.clicks)) = before.clicks
           /\ [after EXCEPT !.isExpired = before.isExpired, !.clicks = before.clicks]
                = before ]_vars

\* a record has got a visit and then its expired flag, and list has gone
\* over it since; its dates are those of its creation
C17_Witness ==
  /\ Did("list")
  /\ \E i \in 1..Len(urls) :
       /\ urls[i].clicks # <<>>
       /\ urls[i].isExpired
       /\ urls[i].createdAt = 0
       /\ urls[i].expiresAt = ValidityMs(urls[i].validityMinutes)

----------------------------------------------------------------------------
(* C18 *)

\* C18: expired is terminal.  The clock never goes back; a record with
\* now > expiresAt is not returned by resolve, gets no visit appended, and
\* is still past its expiresAt after the step (so once resolve has failed on
\* it for expiry, every later resolve and recordVisit does); a record whose
\* isExpired flag is true keeps it true under every operation, list
\* included; and isExpired is never true on a record while now <= expiresAt.
C18_ExpiredTerminal ==
  /\ [](\A i \in 1..Len(urls) : urls[i].isExpired => now > urls[i].expiresAt)
  /\ [][ /\ now' >= now
         /\ \A p \in Kept(urls, urls') :
              LET before == urls[p[1]]
                  after == urls'[p[2]]
              IN /\ before.isExpired => after.isExpired
                 /\ now > before.expiresAt =>
                      /\ now' > after.expiresAt
                      /\ after.clicks = before.clicks
                      /\ last'.op = "resolve" =>
                           (last'.ret = <<>> \/ last'.ret[1].id # before.id)
                      /\ (last'.op = "recordClick" /\ last'.arg[1] = before.shortCode) =>
                           last'.ret = <<FALSE>> ]_vars

\* a recordVisit on a record flagged as expired was refused, and the record
\* has no visit
C18_Witness ==
  /\ Did("recordClick")
  /\ last.ret = <<FALSE>>
  /\ \E i \in Holders(urls, last.arg[1]) :
       /\ urls[i].isExpired
       /\ urls[i].clicks = <<>>
       /\ now > urls[i].expiresAt

----------------------------------------------------------------------------
(* C19 *)

----------------------------------------------------------------------------
(* C20 *)

\* the persisted link collection is the in-memory collection: a registry
\* constructed over it would hold just the records this one holds
InSync(u, stored) == loadFromStorage(stored, TRUE) = u

\* C20: every mutation is flushed.  An operation of one registry instance
\* that changes the in-memory collection calls saveToStorage; a write that
\* succeeds stores the whole in-memory collection, so that the persisted
\* collection equals it at the return of the operation, whether or not an
\* earlier write had failed (the changes whose write failed are included);
\* a write that fails leaves the stored value as it was; and while no write
\* fails the persisted collection equals the in-memory one at the return of
\* every operation.
C20_Flushed ==
  [][ last'.op \notin {"tick", "construct"} =>
        /\ urls' # urls => last'.writes = 1
        /\ last'.failed <= last'.writes
        /\ (last'.writes = 1 /\ last'.failed = 0) =>
             /\ storage' = <<stringify(urls')>>
             /\ InSync(urls', storage')
        /\ (last'.writes = 1 /\ last'.failed = 1) => storage' = storage
        /\ last'.writes = 0 => storage' = storage
        /\ (InSync(urls, storage) /\ last'.failed = 0) => InSync(urls', storage') ]_vars

\* a first visit was recorded and written although the write of the create
\* before it had failed: the persisted collection now holds the record that
\* the failed write had not stored, with its visit
C20_Witness ==
  /\ Did("recordClick")
  /\ last.ret = <<TRUE>>
  /\ last.writes = 1
  /\ last.failed = 0
  /\ last.stale
  /\ Len(urls) = 1
  /\ Len(urls[1].clicks) = 1
  /\ storage = <<stringify(urls)>>

----------------------------------------------------------------------------
(* C21 *)

\* C21: storage failures are never fatal.  When the write throws during
\* create, resolve, recordVisit, list or deleteLink, the call makes that one
\* write attempt only, the stored value stays as it was, no error reaches
\* the caller, and the call returns what it returns when the write succeeds
\* and keeps its in-memory change; later calls answer from the in-memory
\* collection, whatever storage holds; when the read or the parse fails at
\* start-up, construction completes with an empty collection.
C21_StorageFailures ==
  [][ /\ last'.failed = 1 =>
           /\ last'.writes = 1
           /\ storage' = storage
           /\ last'.error = NoError
           /\ last'.op \in {"create", "resolve", "recordClick", "list", "delete"}
           /\ last'.op = "create" =>
                /\ Len(last'.ret) = 1
                /\ urls' = Append(urls, last'.ret[1])
                /\ last'.ret[1].originalUrl = last'.arg.originalUrl
           /\ last'.op = "resolve" =>
                /\ last'.ret = <<>>
                /\ \E i \in Holders(urls, last'.arg) :
                     /\ now > urls[i].expiresAt
                     /\ urls' = [urls EXCEPT ![i].isExpired = TRUE]
           /\ last'.op = "recordClick" =>
                \/ /\ last'.ret = <<TRUE>>
                   /\ \E i \in Holders(urls, last'.arg[1]) :
                        /\ now <= urls[i].expiresAt
                        /\ Len(urls'[i].clicks) = Len(urls[i].clicks) + 1
                        /\ urls = [urls' EXCEPT ![i].clicks = urls[i].clicks]
                \/ /\ last'.ret = <<FALSE>>
                   /\ \E i \in Holders(urls, last'.arg[1]) :
                        /\ now > urls[i].expiresAt
                        /\ urls' = [urls EXCEPT ![i].isExpired = TRUE]
           /\ last'.op = "list" =>
                /\ Len(urls') = Len(urls)
                /\ \A i \in 1..Len(urls) :
                     urls'[i] = [urls[i] EXCEPT !.isExpired = now > urls[i].expiresAt]
                /\ Len(last'.ret[1]) = Len(urls')
                /\ \A i \in 1..Len(urls') : \E j \in 1..Len(urls') : last'.ret[1][j] = urls'[i]
           /\ last'.op = "delete" =>
                /\ last'.ret = <<TRUE>>
                /\ Len(urls') = Len(urls) - 1
                /\ \A i \in 1..Len(urls') : urls'[i].id # last'.arg
      /\ last'.op = "resolve" =>
           (last'.ret # <<>> <=> \E i \in Holders(urls, last'.arg) : now <= urls[i].expiresAt)
      /\ last'.op = "countActive" =>
           last'.ret = <<Cardinality({i \in 1..Len(urls) : now <= urls[i].expiresAt})>>
      /\ (last'.op = "construct" /\ last'.arg = FALSE) =>
           /\ urls' = <<>>
           /\ last'.error = NoError
           /\ storage' = storage ]_vars

\* resolve returned a record whose create could not write: localStorage
\* holds nothing
C21_Witness ==
  /\ Did("resolve")
  /\ last.ret # <<>>
  /\ Len(urls) = 1
  /\ storage = <<>>

\* a finished call of info, warn, error or debug
Logged == last'.op \in Levels /\ nextId' = nextId + 1

\* the entries of l are the latest Len(l) of the ids handed out up to id,
\* in the order they were handed out
MostRecent(l, id) == \A i \in 1..Len(l) : l[i].id = id - Len(l) + i

\* C22: the diagnostic log is bounded.  After any sequence of info, warn,
\* error and debug calls the log getLogs returns and the log written to
\* storage hold at most 1000 entries each; a call appends its entry to the
\* log, which grows by one entry up to 1000 and from there on loses its
\* oldest entry, so that the entries held are the most recent ones logged,
\* in the order they were logged, and the stored log is the log held.
C22_LogBounded ==
  /\ [](/\ Len(getLogs) <= LogLimit
        /\ MostRecent(getLogs, nextId)
        /\ Len(logStorage) = 1
        /\ Len(logStorage[1]) <= LogLimit
        /\ MostRecent(logStorage[1], nextId))
  /\ [][Logged =>
          /\ Len(logs') = IF Len(logs) < LogLimit THEN Len(logs) + 1 ELSE LogLimit
          /\ logs'[Len(logs')] = createLog(last'.op, last'.arg, "Home", nextId', now)
          /\ \A i \in 1..(Len(logs') - 1) : logs'[i] = logs[i + Len(logs) + 1 - Len(logs')]
          /\ \A i \in 1..Len(logs') :
                logStorage'[1][i] = [logs'[i] EXCEPT !.timestamp = toISOString(@)] ]_vars

\* a call on a full log: 1001 entries were logged and the log holds the
\* entries 2 to 1001
C22_Witness ==
  /\ last.op \in Levels
  /\ nextId = LogLimit + 1
  /\ Len(logs) = LogLimit
  /\ logs[1].id = 2
  /\ Len(logStorage[1]) = LogLimit

\* C23: on every new log entry each subscribed listener is invoked exactly
\* once, with the full current log: the sequence it receives ends with the
\* new entry, equals what getLogs() returns right after the logging call,
\* and so holds at most 1000 entries, also when the entry overflows the
\* bound.
C23_Delivery ==
  [][Logged =>
       /\ Len(delivered') = Len(listeners)
       /\ \A k \in 1..Len(listeners) :
            /\ delivered'[k].listener = listeners[k]
            /\ delivered'[k].logs[Len(delivered'[k].logs)].id = nextId'
            /\ delivered'[k].logs = getLogs'
            /\ Len(delivered'[k].logs) <= LogLimit ]_vars

\* the listeners that have a subscription in ls
Subscribed(ls) == {ls[k] : k \in 1..Len(ls)}

\* the subscriptions of ls other than those of listener, in their order
Others(ls, listener) ==
  LET Other(l) == l # listener IN SelectSeq(ls, Other)

\* C24: the handle returned by subscribe(listener) ends that subscription.
\* A call of the handle removes the subscriptions of that listener and
\* leaves those of every other listener, made before or after, in place; a
\* call of the handle of a listener that is not subscribed changes nothing;
\* a listener becomes subscribed by a subscribe call only and ceases to be
\* by a call of its handle (or when the page is loaded anew); and a logging
\* call invokes the subscriptions held, once each and no other listener,
\* so that a listener whose handle was called is not invoked for a later
\* entry and the others are invoked on every entry.
C24_Unsubscribe ==
  [][ /\ last'.op = "unsubscribe" =>
           /\ listeners' = Others(listeners, last'.arg)
           /\ last'.arg \notin Subscribed(listeners) => listeners' = listeners
           /\ UNCHANGED <<logs, logStorage, delivered, handles, nextId>>
      /\ \A l \in Subscribed(listeners') \ Subscribed(listeners) :
           last'.op = "subscribe" /\ last'.arg = l
      /\ \A l \in Subscribed(listeners) \ Subscribed(listeners') :
           \/ last'.op = "unsubscribe" /\ last'.arg = l
           \/ last'.op = "start"
      /\ Logged =>
           /\ listeners' = listeners
           /\ Len(delivered') = Len(listeners)
           /\ \A k \in 1..Len(listeners) :
                /\ delivered'[k].listener = listeners[k]
                /\ delivered'[k].logs[Len(delivered'[k].logs)].id = nextId' ]_vars

\* two listeners were subscribed and the handle of "setLogs" was called:
\* the logging call that followed invoked "other" and did not invoke
\* "setLogs"
C24_Witness ==
  /\ last.op \in Levels
  /\ handles = {"setLogs", "other"}
  /\ listeners = <<"other">>
  /\ Len(delivered) = 1
  /\ delivered[1].listener = "other"
  /\ delivered[1].logs[Len(delivered[1].logs)].id = nextId

\* C28: Logger.initialize restores the persisted log.  After the start of
\* the application (service singleton constructed at module load, page
\* effects run, App's effect calls initialize and logs) the log in memory
\* holds the entries that were in the persisted log when the page was
\* loaded, followed by the entries logged in this session, up to the bound
\* of 1000 entries.
C28_Restored ==
  [][(last'.op = "start" /\ logStorage # <<>>) =>
       LET persisted == reviveLogs(logStorage[1])
           session == nextId' - nextId
           evicted == IF Len(persisted) + session > LogLimit
                      THEN Len(persisted) + session - LogLimit ELSE 0
       IN /\ Len(logs') = Len(persisted) + session - evicted
          /\ \A i \in 1..Len(persisted) :
               i > evicted => logs'[i - evicted] = persisted[i]
          /\ \A j \in 1..session :
               logs'[Len(logs') - session + j].id = nextId + j ]_vars

\* the number of visits recorded on the records of u that have the alias
Visits(u, alias) == [i \in Holders(u, alias) |-> Len(u[i].clicks)]

\* C25: every load of the redirect route that reaches status 'found' for a
\* short code has appended exactly one visit to that link, also when the
\* clock passes expiresAt between the resolve and the recordVisit of the
\* page: 'found' is not shown without a visit having been recorded.
C25_FoundIsVisited ==
  [][(last'.op = "redirect" /\ redirect'.status = "found") =>
       \E i \in Holders(urls, last'.arg[1]) :
         /\ Len(urls') = Len(urls)
         /\ Len(urls'[i].clicks) = Len(urls[i].clicks) + 1
         /\ urls'[i].clicks[Len(urls'[i].clicks)].source = last'.arg[2] ]_vars

\* C26: on the redirect route a short code of a held link whose expiry time
\* has passed ends in status 'expired', and status 'notfound' is reached
\* only when no held link has the short code; in neither case is a visit
\* recorded or a redirect started.
C26_ExpiredView ==
  [][last'.op = "redirect" =>
       /\ (\E i \in Holders(urls, last'.arg[1]) : now > urls[i].expiresAt) =>
            redirect'.status = "expired"
       /\ redirect'.status = "notfound" => Holders(urls, last'.arg[1]) = {}
       /\ redirect'.status \in {"expired", "notfound"} =>
            /\ Visits(urls', last'.arg[1]) = Visits(urls, last'.arg[1])
            /\ redirect'.originalUrl = "" ]_vars

\* C27: batch creation from the home form is sequential and is not rolled
\* back.  A submission creates the links of its entries in order, each
\* appended to the registry and written to storage; when create fails for
\* the k-th entry, the links of the entries 1..k-1 stay in the registry and
\* in storage, holding their aliases, nothing is created for the entries
\* after k, the displayed list of created URLs stays as it was, and the
\* submitting flag is false again.  When no entry fails the displayed list
\* becomes the links of the batch.
C27_BatchNotRolledBack ==
  [][last'.op = "submit" =>
       LET batch == last'.arg
           made == Len(urls') - Len(urls)
       IN /\ made >= 0 /\ made <= Len(batch)
          /\ SubSeq(urls', 1, Len(urls)) = urls
          /\ \A j \in 1..made :
               /\ urls'[Len(urls) + j].originalUrl = batch[j].originalUrl
               /\ batch[j].customShortcode # <<>> =>
                    urls'[Len(urls) + j].shortCode = batch[j].customShortcode
               /\ urls'[Len(urls) + j].createdAt = now
          /\ InSync(urls', storage')
          /\ nextId' = nextId + made
          /\ home'.isSubmitting = FALSE
          /\ IF last'.error = NoError
             THEN /\ made = Len(batch)
                  /\ home'.createdUrls = SubSeq(urls', Len(urls) + 1, Len(urls'))
             ELSE /\ made < Len(batch)
                  /\ last'.attempts = made + 1
                  /\ home'.createdUrls = home.createdUrls
                  /\ last'.error \in {InvalidUrl, AliasTaken, AliasGenerationExhausted}
                  /\ last'.error = InvalidUrl <=>
                       batch[made + 1].originalUrl \notin ParsableUrls
                  /\ last'.error = AliasTaken =>
                       /\ batch[made + 1].customShortcode # <<>>
                       /\ Holders(urls', batch[made + 1].customShortcode) # {}
                  /\ last'.error = AliasGenerationExhausted =>
                       batch[made + 1].customShortcode = <<>> ]_vars

\* a batch of three entries failed at its second entry, which asked for the
\* alias its first entry had just taken: the link of the first entry is held
\* and stored, nothing was created for the third entry, and the displayed
\* list still shows the link of the submission before
C27_Witness ==
  /\ Did("submit")
  /\ last.error = AliasTaken
  /\ last.arg = <<FormCustom, FormCustom, FormGenerated>>
  /\ last.attempts = 2
  /\ Len(urls) = 2
  /\ urls[2].shortCode = Repeat("Z", 20)
  /\ InSync(urls, storage)
  /\ home.createdUrls = <<urls[1]>>
  /\ ~ home.isSubmitting

\* C29: with two registry instances over the same storage, a visit that
\* recordVisit has recorded and a link that create has created stay in the
\* persisted collection whatever either instance does next: no operation
\* of either instance takes a stored link, or a stored visit of it, out of
\* storage, other than deleteLink of that link.
C29_NoLostUpdate ==
  [][LET before == loadFromStorage(storage, TRUE)
         after == loadFromStorage(storage', TRUE)
     IN \A i \in 1..Len(before) :
          \/ /\ last'.op = "delete"
             /\ last'.arg = before[i].id
             /\ last'.ret = <<TRUE>>
          \/ \E j \in 1..Len(after) :
               /\ after[j].id = before[i].id
               /\ Len(after[j].clicks) >= Len(before[i].clicks)
               /\ SubSeq(after[j].clicks, 1, Len(before[i].clicks)) = before[i].clicks ]_vars

====
